---------------------------- MODULE Spec2Model ----------------------------
(***************************************************************************)
(* Model of the database truncation command of aptosdb's db_debugger       *)
(* (storage/aptosdb/src/db_debugger/truncation/mod.rs).                    *)
(*                                                                         *)
(* The two stores are modelled as records of tables; every table is the    *)
(* set of its keys (values are never read by the command).  Keys keep the  *)
(* order in which the key-value engine iterates them:                      *)
(*   - a Version is a natural number;                                      *)
(*   - a NodeKey is <<version, path>>, path 0 being the empty nibble path  *)
(*     (the root) and path 1 a non-empty one, ordered by version first;    *)
(*   - a StaleNodeIndex is <<stale_since_version, node_key>>;              *)
(*   - a StaleStateValueIndex is <<stale_since_version, version, key>>;    *)
(*   - an accumulator Position is its postorder index.                     *)
(* The secondary indices kept by TransactionStore and EventStore           *)
(* (transaction by account / by hash, events) live in code that is not     *)
(* part of this file and are not modelled.                                 *)
(***************************************************************************)
EXTENDS Integers, FiniteSets, Sequences, TLC

\* Highest ledger version of the stores the model starts from.
MaxVersion == 3

\* Highest batch size given on the command line.
MaxBatchSize == MaxVersion + 1

\* The command is invoked at most this many times in one behaviour.
MaxRuns == 2

\* Highest leaf count of the accumulators the ledger loop is started on when
\* it is taken alone.
MaxLeaves == 12

\* The batches of one loop are counted up to this number; a loop that makes
\* progress needs at most MaxVersion + 1 of them.
MaxBatches == MaxVersion + 2

\* u64 arithmetic is modelled on a word of 16 bits: every version, position
\* and batch size of the model is far below it, so wrapped values stay apart
\* from real ones exactly as they do on 64 bits.
U64 == 2 ^ 16

U64Max == U64 - 1

\* Option<Version>::None
None == -1

Versions == 0 .. MaxVersion

EmptyPath == 0

NonEmptyPath == 1

StateKey == "k"

VARIABLES
    ledger_db,                    \* the ledger store: one field per schema
    state_merkle_db,              \* the state tree store: one field per schema
    target_version,               \* Cmd.target_version
    ledger_db_batch_size,         \* Cmd.ledger_db_batch_size
    pc,                           \* where Cmd::run stands
    ledger_db_version,            \* local of Cmd::run
    state_merkle_target_version,  \* local of Cmd::run
    current_version,              \* local of truncate_ledger_db
    batches,                      \* history: batches written by the current loop
    runs,                         \* number of invocations so far
    interrupted,                  \* some invocation was killed between batches
    started_after,                \* history: pc when the current run was started
    db_at_init,                   \* history: both stores before the first run
    db_at_start                   \* history: both stores when the current run began

vars == <<ledger_db, state_merkle_db, target_version, ledger_db_batch_size, pc,
          ledger_db_version, state_merkle_target_version, current_version,
          batches, runs, interrupted, started_after, db_at_init, db_at_start>>

----------------------------------------------------------------------------
\* Helpers

Max(a, b) == IF a >= b THEN a ELSE b

MaxOf(S) == CHOOSE x \in S : \A y \in S : y <= x

RECURSIVE count_ones(_)
count_ones(n) == IF n = 0 THEN 0 ELSE (n % 2) + count_ones(n \div 2)

wrapping_sub(a, b) == (a - b + 2 * U64) % U64

wrapping_add(a, b) == (a + b) % U64

wrapping_mul(a, b) == (a * b) % U64

\* Order of NodeKeys in JellyfishMerkleNodeSchema: version, then path.
NodeKeyLE(a, b) == a[1] < b[1] \/ (a[1] = b[1] /\ a[2] <= b[2])

new_empty_path(version) == <<version, EmptyPath>>

----------------------------------------------------------------------------
\* Version Locator

\* seek_to_last on TransactionInfoSchema
get_current_version_in_ledger_db(ldb) ==
    IF ldb.transaction_info = {} THEN None ELSE MaxOf(ldb.transaction_info)

\* rev_iter, seek_for_prev(NodeKey::new_empty_path(version)): the greatest
\* node key that is <= (version, empty path), and its version.
find_closest_node_version_at_or_before(smdb, version) ==
    LET at_or_before == {k \in smdb.jellyfish_merkle_node :
                            NodeKeyLE(k, new_empty_path(version))}
    IN  IF at_or_before = {} THEN None
        ELSE MaxOf({k[1] : k \in at_or_before})

get_current_version_in_state_merkle_db(smdb) ==
    find_closest_node_version_at_or_before(smdb, U64Max)

\* Mutant: any node of the version counts as its root.
root_exist_at_version_any_path(smdb, version) ==
    \E k \in smdb.jellyfish_merkle_node : k[1] = version

root_exist_at_version(smdb, version) ==
    new_empty_path(version) \in smdb.jellyfish_merkle_node

\* Mutant: seek instead of seek_for_prev, the first boundary at or after version.
closest_epoch_version_seek(ldb, version) ==
    LET at_or_after == {e[1] : e \in {x \in ldb.epoch_by_version : x[1] >= version}}
    IN  IF at_or_after = {} THEN None
        ELSE CHOOSE x \in at_or_after : \A y \in at_or_after : x <= y

\* seek_for_prev(&version) on EpochByVersionSchema, then next()
closest_epoch_version(ldb, version) ==
    LET at_or_before == {e[1] : e \in {x \in ldb.epoch_by_version : x[1] <= version}}
    IN  IF at_or_before = {} THEN None ELSE MaxOf(at_or_before)

find_tree_root_at_or_before(ldb, smdb, version) ==
    LET closest_version == find_closest_node_version_at_or_before(smdb, version)
    IN  IF closest_version = None THEN None
        ELSE IF root_exist_at_version(smdb, closest_version) THEN closest_version
        ELSE LET closest_epoch == closest_epoch_version(ldb, version)
             IN  IF closest_epoch = None THEN None
                 ELSE IF root_exist_at_version(smdb, closest_epoch)
                      THEN closest_epoch
                      ELSE None

----------------------------------------------------------------------------
\* Accumulator Index Arithmetic

\* Mutant: a single tree over the leaves is counted, 2 * num_leaves - 1 nodes.
num_frozen_nodes_in_accumulator_of_one_tree(num_leaves) ==
    wrapping_sub(wrapping_mul(2, num_leaves), 1)

\* 2 * num_leaves - num_leaves.count_ones(), as the release build computes it
num_frozen_nodes_in_accumulator(num_leaves) ==
    wrapping_sub(wrapping_mul(2, num_leaves), count_ones(num_leaves))

\* with overflow checks the multiplication or the subtraction panics
num_frozen_nodes_overflows(num_leaves) ==
    \/ 2 * num_leaves > U64Max
    \/ 2 * num_leaves < count_ones(num_leaves)

----------------------------------------------------------------------------
\* Ledger Truncator: one batch.  The deletions are collected in a SchemaBatch
\* while the store is read unchanged; write_schemas applies them together.

\* (end_version - start_version) as usize
delete_transaction_index_data_overflows(start_version, end_version) ==
    start_version > end_version

\* Mutant: the iteration starts after start_version.
delete_per_epoch_data_after_start(ldb, start_version, end_version) ==
    {e \in ldb.epoch_by_version : e[1] > start_version}

\* iter.seek(&start_version) on EpochByVersionSchema and everything after it
delete_per_epoch_data(ldb, start_version, end_version) ==
    {e \in ldb.epoch_by_version : e[1] >= start_version}

\* assert!(version < end_version)
delete_per_epoch_data_panics(ldb, start_version, end_version) ==
    \E e \in delete_per_epoch_data(ldb, start_version, end_version) :
        ~(e[1] < end_version)

\* Mutant: the range starts one version too early.
delete_per_version_data_from_before_start(start_version, end_version) ==
    (start_version - 1) .. (end_version - 1)

\* for version in start_version..end_version
delete_per_version_data(start_version, end_version) ==
    start_version .. (end_version - 1)

\* iter.seek(&start_version) on StaleStateValueIndexSchema and everything after it
delete_state_value_and_index(ldb, start_version, end_version) ==
    {i \in ldb.stale_state_value_index : i[1] >= start_version}

\* assert!(index.stale_since_version < end_version)
delete_state_value_and_index_panics(ldb, start_version, end_version) ==
    \E i \in delete_state_value_and_index(ldb, start_version, end_version) :
        ~(i[1] < end_version)

\* positions from Position::from_postorder_index(num_frozen_nodes_after_this_batch) on
truncate_transaction_accumulator(ldb, start_version, end_version) ==
    {p \in ldb.transaction_accumulator :
        p >= num_frozen_nodes_in_accumulator(start_version)}

truncate_transaction_accumulator_panics(ldb, start_version, end_version, overflow_checks) ==
    LET num_frozen_nodes == num_frozen_nodes_in_accumulator(end_version)
        num_frozen_nodes_after_this_batch ==
            num_frozen_nodes_in_accumulator(start_version)
        num_nodes_to_delete ==
            wrapping_sub(num_frozen_nodes, num_frozen_nodes_after_this_batch)
        deleted ==
            Cardinality(truncate_transaction_accumulator(ldb, start_version, end_version))
    IN  \* iter.next().transpose()?.unwrap()
        \/ ldb.transaction_accumulator = {}
        \* assert!(position.to_postorder_index() + 1 == num_frozen_nodes)
        \/ /\ ldb.transaction_accumulator # {}
           /\ MaxOf(ldb.transaction_accumulator) + 1 # num_frozen_nodes
        \* arithmetic overflow in a build with overflow checks
        \/ /\ overflow_checks
           /\ \/ num_frozen_nodes_overflows(end_version)
              \/ num_frozen_nodes_overflows(start_version)
              \/ num_frozen_nodes_after_this_batch > num_frozen_nodes
              \/ deleted > num_nodes_to_delete
        \* assert!(num_nodes_to_delete == 0)
        \/ wrapping_sub(num_nodes_to_delete, deleted) # 0

\* Mutant: the accumulator is not checked.
truncate_ledger_db_single_batch_panics_before_accumulator(ldb, start_version, end_version, overflow_checks) ==
    \/ overflow_checks
       /\ delete_transaction_index_data_overflows(start_version, end_version)
    \/ delete_per_epoch_data_panics(ldb, start_version, end_version)
    \/ delete_state_value_and_index_panics(ldb, start_version, end_version)

truncate_ledger_db_single_batch_panics(ldb, start_version, end_version, overflow_checks) ==
    \/ overflow_checks
       /\ delete_transaction_index_data_overflows(start_version, end_version)
    \/ delete_per_epoch_data_panics(ldb, start_version, end_version)
    \/ delete_state_value_and_index_panics(ldb, start_version, end_version)
    \/ truncate_transaction_accumulator_panics(ldb, start_version, end_version,
                                               overflow_checks)

\* Mutant: the accumulator's deletions are not put in the batch.
truncate_ledger_db_single_batch_without_accumulator(ldb, start_version, end_version) ==
    LET epochs  == delete_per_epoch_data(ldb, start_version, end_version)
        indices == delete_state_value_and_index(ldb, start_version, end_version)
        vers    == delete_per_version_data(start_version, end_version)
    IN  [transaction_info        |-> ldb.transaction_info \ vers,
         transaction             |-> ldb.transaction \ vers,
         version_data            |-> ldb.version_data \ vers,
         write_set               |-> ldb.write_set \ vers,
         epoch_by_version        |-> ldb.epoch_by_version \ epochs,
         ledger_info             |-> ldb.ledger_info \ {e[2] : e \in epochs},
         stale_state_value_index |-> ldb.stale_state_value_index \ indices,
         state_value             |-> ldb.state_value \ {<<i[3], i[1]>> : i \in indices},
         transaction_accumulator |-> ldb.transaction_accumulator]

\* ledger_db.write_schemas(batch)
truncate_ledger_db_single_batch(ldb, start_version, end_version) ==
    LET epochs  == delete_per_epoch_data(ldb, start_version, end_version)
        indices == delete_state_value_and_index(ldb, start_version, end_version)
        vers    == delete_per_version_data(start_version, end_version)
    IN  [transaction_info        |-> ldb.transaction_info \ vers,
         transaction             |-> ldb.transaction \ vers,
         version_data            |-> ldb.version_data \ vers,
         write_set               |-> ldb.write_set \ vers,
         epoch_by_version        |-> ldb.epoch_by_version \ epochs,
         ledger_info             |-> ldb.ledger_info \ {e[2] : e \in epochs},
         stale_state_value_index |-> ldb.stale_state_value_index \ indices,
         state_value             |-> ldb.state_value \ {<<i[3], i[1]>> : i \in indices},
         transaction_accumulator |->
             ldb.transaction_accumulator
                 \ truncate_transaction_accumulator(ldb, start_version, end_version)]

\* Mutant: the start of the batch is not held above the target.
start_version_of_batch_unclamped(cur, batch_size, target) ==
    wrapping_add(wrapping_sub(cur, batch_size), 1)

\* std::cmp::max(current_version - batch_size as u64 + 1, target_version + 1)
start_version_of_batch(cur, batch_size, target) ==
    Max(wrapping_add(wrapping_sub(cur, batch_size), 1), wrapping_add(target, 1))

\* current_version - batch_size underflows
start_version_overflows(cur, batch_size) == batch_size > cur

----------------------------------------------------------------------------
\* State Tree Truncator: one iteration.

\* Mutant: the iteration starts one version too early.
nodes_from_version_before(smdb, version) ==
    {k \in smdb.jellyfish_merkle_node : NodeKeyLE(new_empty_path(version - 1), k)}

\* iter.seek(&NodeKey::new_empty_path(current_version)) and everything after it
nodes_from_version(smdb, version) ==
    {k \in smdb.jellyfish_merkle_node : NodeKeyLE(new_empty_path(version), k)}

\* iter.seek(&version) on a stale node index schema and everything after it
delete_stale_node_index_at_version(index_table, version) ==
    {i \in index_table : i[1] >= version}

\* assert!(index.stale_since_version == version)
delete_stale_node_index_at_version_panics(index_table, version) ==
    \E i \in delete_stale_node_index_at_version(index_table, version) :
        i[1] # version

truncate_state_merkle_db_iteration_panics(smdb, version) ==
    \/ delete_stale_node_index_at_version_panics(smdb.stale_node_index, version)
    \/ delete_stale_node_index_at_version_panics(smdb.stale_node_index_cross_epoch,
                                                 version)

\* Mutant: only the first node the iterator yields is deleted.
truncate_state_merkle_db_iteration_first_node_only(smdb, version) ==
    [jellyfish_merkle_node |->
         LET nodes == nodes_from_version(smdb, version)
         IN  smdb.jellyfish_merkle_node \
                 {k \in nodes : \A n \in nodes : NodeKeyLE(k, n)},
     stale_node_index |->
         smdb.stale_node_index
             \ delete_stale_node_index_at_version(smdb.stale_node_index, version),
     stale_node_index_cross_epoch |->
         smdb.stale_node_index_cross_epoch
             \ delete_stale_node_index_at_version(smdb.stale_node_index_cross_epoch,
                                                  version)]

\* state_merkle_db.write_schemas(batch)
truncate_state_merkle_db_iteration(smdb, version) ==
    [jellyfish_merkle_node |->
         smdb.jellyfish_merkle_node \ nodes_from_version(smdb, version),
     stale_node_index |->
         smdb.stale_node_index
             \ delete_stale_node_index_at_version(smdb.stale_node_index, version),
     stale_node_index_cross_epoch |->
         smdb.stale_node_index_cross_epoch
             \ delete_stale_node_index_at_version(smdb.stale_node_index_cross_epoch,
                                                  version)]

----------------------------------------------------------------------------
\* External collaborator: StateStore::catch_up_state_merkle_db replays the
\* state writes of the ledger store and commits a tree snapshot at the
\* ledger's latest version.

catch_up_state_merkle_db(ldb, smdb) ==
    [smdb EXCEPT !.jellyfish_merkle_node =
        @ \cup {new_empty_path(get_current_version_in_ledger_db(ldb))}]

----------------------------------------------------------------------------
\* The stores the command is started on, as the ledger write path, the state
\* tree committer and the pruners leave them.

\* Versions 0 .. latest are committed; epochs end at the versions of
\* epoch_endings; the state key is written at the versions of writes, every
\* write but the first making the previous value stale.
CommittedLedger(latest, epoch_endings, writes) ==
    LET committed == 0 .. latest
        epoch_of(v) == Cardinality({e \in epoch_endings : e < v})
        previous(v) == MaxOf({w \in writes : w < v})
    IN  [transaction_info        |-> committed,
         transaction             |-> committed,
         version_data            |-> committed,
         write_set               |-> committed,
         epoch_by_version        |-> {<<v, epoch_of(v)>> : v \in epoch_endings},
         ledger_info             |-> {epoch_of(v) : v \in epoch_endings},
         stale_state_value_index |->
             {<<v, previous(v), StateKey>> :
                 v \in {w \in writes : \E u \in writes : u < w}},
         state_value             |-> {<<StateKey, v>> : v \in writes},
         transaction_accumulator |->
             0 .. (num_frozen_nodes_in_accumulator(latest + 1) - 1)]

\* What the tree holds at one version: nothing, a full snapshot (root and a
\* node below it), or a snapshot whose root has been pruned.
NodeKinds == {"none", "snapshot", "pruned_root"}

NodesOfKind(version, kind) ==
    CASE kind = "none"        -> {}
      [] kind = "snapshot"    -> {<<version, EmptyPath>>, <<version, NonEmptyPath>>}
      [] kind = "pruned_root" -> {<<version, NonEmptyPath>>}

\* kinds: the kind of every version; a root that a later snapshot replaced
\* is stale since that snapshot, in the cross-epoch index when an epoch ended
\* in between.  lagging is None or a version whose nodes the state merkle
\* pruner has removed while the epoch snapshot pruner has not reached its
\* cross-epoch staleness record yet: a node of an epoch that ended before is
\* stale since that version.
CommittedTree(kinds, epoch_endings, lagging) ==
    LET with_nodes == {v \in DOMAIN kinds : kinds[v] # "none"}
        replaced ==
            {<<s, <<p, EmptyPath>>>> : s \in with_nodes, p \in with_nodes} \cap
            {i \in (DOMAIN kinds) \X ((DOMAIN kinds) \X {EmptyPath}) :
                /\ i[2][1] < i[1]
                /\ kinds[i[2][1]] = "snapshot"
                /\ ~ \E m \in with_nodes : i[2][1] < m /\ m < i[1]}
        cross_epoch(i) == \E e \in epoch_endings : i[2][1] <= e /\ e < i[1]
    IN  [jellyfish_merkle_node |->
             UNION {NodesOfKind(v, kinds[v]) : v \in DOMAIN kinds},
         stale_node_index |-> {i \in replaced : ~cross_epoch(i)},
         stale_node_index_cross_epoch |->
             {i \in replaced : cross_epoch(i)} \cup
             {<<lagging, <<e, NonEmptyPath>>>> :
                 e \in {x \in epoch_endings : lagging # None /\ x < lagging}}]

\* Versions below the tree's latest at which a cross-epoch staleness record
\* may remain although every node of that version is gone.
LaggingChoices(kinds, epoch_endings) ==
    {None} \cup
    {v \in DOMAIN kinds :
        /\ kinds[v] = "none"
        /\ \E e \in epoch_endings : e < v /\ kinds[e] # "none"
        /\ \E u \in DOMAIN kinds : u > v /\ kinds[u] # "none"}

EpochEndingChoices(latest) ==
    {e \in SUBSET (0 .. latest) : Cardinality(e) <= 1}

\* The state key is never written, or written at every version from its
\* first write on.
WriteChoices(latest) ==
    {(c .. latest) : c \in 0 .. (latest + 1)}

\* The command is started on any state tree over a ledger without state
\* writes, with a batch size of one or two versions, or on any state write
\* history under a tree that holds the snapshot of every version, with any
\* batch size.
Init ==
    /\ \E latest \in (Versions \cup {None}) :
         /\ \/ \E epoch_endings \in EpochEndingChoices(latest) :
                 \E kinds \in [0 .. latest -> NodeKinds] :
                   \E lagging \in LaggingChoices(kinds, epoch_endings) :
                     /\ ledger_db = CommittedLedger(latest, epoch_endings, {})
                     /\ state_merkle_db =
                            CommittedTree(kinds, epoch_endings, lagging)
                     /\ ledger_db_batch_size \in 1 .. 2
            \/ \E epoch_endings \in EpochEndingChoices(latest) :
                 \E writes \in WriteChoices(latest) :
                   /\ ledger_db = CommittedLedger(latest, epoch_endings, writes)
                   /\ state_merkle_db =
                          CommittedTree([v \in 0 .. latest |-> "snapshot"],
                                        epoch_endings, None)
                   /\ ledger_db_batch_size \in 0 .. MaxBatchSize
         /\ target_version \in 0 .. (latest + 1)
    /\ pc = "idle"
    /\ ledger_db_version = None
    /\ state_merkle_target_version = None
    /\ current_version = None
    /\ batches = 0
    /\ runs = 0
    /\ interrupted = FALSE
    /\ started_after = "idle"
    /\ db_at_init = <<ledger_db, state_merkle_db>>
    /\ db_at_start = <<ledger_db, state_merkle_db>>

----------------------------------------------------------------------------
\* Cmd::run

\* Mutant: the run goes on when no tree root is found.
PreChecksPass_without_root(ldb, smdb, target) ==
    /\ get_current_version_in_ledger_db(ldb) # None
    /\ get_current_version_in_state_merkle_db(smdb) # None
    /\ target <= get_current_version_in_ledger_db(ldb)
    /\ get_current_version_in_ledger_db(ldb)
           >= get_current_version_in_state_merkle_db(smdb)

\* The checks of Cmd::run before the first truncation: both current versions
\* exist, the two assertions hold and a tree root is found.
PreChecksPass(ldb, smdb, target) ==
    /\ get_current_version_in_ledger_db(ldb) # None
    /\ get_current_version_in_state_merkle_db(smdb) # None
    /\ target <= get_current_version_in_ledger_db(ldb)
    /\ get_current_version_in_ledger_db(ldb)
           >= get_current_version_in_state_merkle_db(smdb)
    /\ find_tree_root_at_or_before(ldb, smdb, target) # None

\* Mutant: the comparison is turned around.
needs_catch_up_flipped(tree_target, target) == tree_target > target

\* Mutant: the catch-up is called when the tree target is the target too.
needs_catch_up_or_equal(tree_target, target) == tree_target <= target

\* if state_merkle_target_version < self.target_version
needs_catch_up(tree_target, target) == tree_target < target

\* The command is started (again after it returned Ok or was killed).
Run ==
    /\ pc \in {"idle", "ok", "killed"}
    /\ runs < MaxRuns
    /\ runs' = runs + 1
    /\ started_after' = pc
    /\ db_at_start' = <<ledger_db, state_merkle_db>>
    /\ current_version' = None
    /\ batches' = 0
    /\ IF PreChecksPass(ledger_db, state_merkle_db, target_version)
       THEN /\ ledger_db_version' = get_current_version_in_ledger_db(ledger_db)
            /\ state_merkle_target_version' =
                   find_tree_root_at_or_before(ledger_db, state_merkle_db,
                                               target_version)
            /\ pc' = "truncate_state_merkle_db"
       ELSE /\ ledger_db_version' = None
            /\ state_merkle_target_version' = None
            /\ pc' = "panic_precheck"
    /\ UNCHANGED <<ledger_db, state_merkle_db, target_version,
                   ledger_db_batch_size, interrupted, db_at_init>>

\* One iteration of the loop of truncate_state_merkle_db.  The locals of
\* Cmd::run are dropped when it panics.
TruncateStateMerkleDb ==
    /\ pc = "truncate_state_merkle_db"
    /\ LET cur == get_current_version_in_state_merkle_db(state_merkle_db)
       IN  IF cur = None \/ cur < state_merkle_target_version
           THEN /\ pc' = "panic_state_merkle"
                /\ ledger_db_version' = None
                /\ state_merkle_target_version' = None
                /\ batches' = 0
                /\ UNCHANGED <<state_merkle_db, current_version>>
           ELSE IF cur = state_merkle_target_version
           THEN /\ pc' = "truncate_ledger_db"
                /\ current_version' = ledger_db_version
                /\ batches' = 0
                /\ UNCHANGED <<state_merkle_db, ledger_db_version,
                               state_merkle_target_version>>
           ELSE IF truncate_state_merkle_db_iteration_panics(state_merkle_db, cur)
           THEN /\ pc' = "panic_state_merkle"
                /\ ledger_db_version' = None
                /\ state_merkle_target_version' = None
                /\ batches' = 0
                /\ UNCHANGED <<state_merkle_db, current_version>>
           ELSE /\ state_merkle_db' =
                       truncate_state_merkle_db_iteration(state_merkle_db, cur)
                /\ batches' = batches + 1
                /\ UNCHANGED <<pc, current_version, ledger_db_version,
                               state_merkle_target_version>>
    /\ UNCHANGED <<ledger_db, target_version, ledger_db_batch_size, runs,
                   interrupted, started_after, db_at_init, db_at_start>>

\* One iteration of the loop of truncate_ledger_db, or its exit.  A build
\* with overflow checks panics where the other one wraps.  The locals are
\* dropped when the loop is left.  A loop that makes no progress is followed
\* for MaxBatches batches.
TruncateLedgerDb ==
    /\ pc = "truncate_ledger_db"
    /\ \E overflow_checks \in BOOLEAN :
         IF current_version > target_version
         THEN LET start_version ==
                      start_version_of_batch(current_version, ledger_db_batch_size,
                                             target_version)
                  end_version == wrapping_add(current_version, 1)
              IN  IF \/ overflow_checks
                        /\ start_version_overflows(current_version,
                                                   ledger_db_batch_size)
                     \/ truncate_ledger_db_single_batch_panics(
                            ledger_db, start_version, end_version, overflow_checks)
                  THEN /\ pc' = "panic_ledger"
                       /\ current_version' = None
                       /\ ledger_db_version' = None
                       /\ state_merkle_target_version' = None
                       /\ batches' = 0
                       /\ UNCHANGED ledger_db
                  ELSE /\ batches < MaxBatches
                       /\ batches' = batches + 1
                       /\ ledger_db' = truncate_ledger_db_single_batch(
                                           ledger_db, start_version, end_version)
                       /\ current_version' = wrapping_sub(start_version, 1)
                       /\ UNCHANGED <<pc, ledger_db_version,
                                      state_merkle_target_version>>
         ELSE /\ pc' = IF current_version # target_version THEN "panic_ledger"
                       ELSE IF needs_catch_up(state_merkle_target_version,
                                              target_version)
                            THEN "catch_up_state_merkle_db"
                            ELSE "ok"
              /\ current_version' = None
              /\ ledger_db_version' = None
              /\ state_merkle_target_version' = None
              /\ batches' = 0
              /\ UNCHANGED ledger_db
    /\ UNCHANGED <<state_merkle_db, target_version, ledger_db_batch_size, runs,
                   interrupted, started_after, db_at_init, db_at_start>>

\* StateStore::catch_up_state_merkle_db, then Ok(())
CatchUpStateMerkleDb ==
    /\ pc = "catch_up_state_merkle_db"
    /\ state_merkle_db' = catch_up_state_merkle_db(ledger_db, state_merkle_db)
    /\ pc' = "ok"
    /\ UNCHANGED <<ledger_db, target_version, ledger_db_batch_size,
                   ledger_db_version, state_merkle_target_version,
                   current_version, batches, runs, interrupted, started_after,
                   db_at_init, db_at_start>>

\* The process is killed after a batch write of this run; its locals are
\* lost.
Kill ==
    /\ pc \in {"truncate_state_merkle_db", "truncate_ledger_db",
               "catch_up_state_merkle_db"}
    /\ <<ledger_db, state_merkle_db>> # db_at_start
    /\ pc' = "killed"
    /\ interrupted' = TRUE
    /\ ledger_db_version' = None
    /\ state_merkle_target_version' = None
    /\ current_version' = None
    /\ batches' = 0
    /\ UNCHANGED <<ledger_db, state_merkle_db, target_version,
                   ledger_db_batch_size, runs, started_after, db_at_init,
                   db_at_start>>

Next ==
    \/ Run
    \/ TruncateStateMerkleDb
    \/ TruncateLedgerDb
    \/ CatchUpStateMerkleDb
    \/ Kill

Spec == Init /\ [][Next]_vars

----------------------------------------------------------------------------
\* The ledger loop alone: truncate_ledger_db called on a ledger of up to
\* MaxLeaves versions whose accumulator holds the frozen nodes of the
\* perfect subtrees over its leaves, the tree already at the target.

\* Nodes of the forest of perfect binary subtrees over num_leaves leaves,
\* leaves being the leaf count of the subtree of the lowest bit: a perfect
\* subtree of 2^k leaves has 2^(k+1) - 1 nodes.
RECURSIVE ForestNodes(_, _)
ForestNodes(num_leaves, leaves) ==
    IF num_leaves = 0 THEN 0
    ELSE (IF num_leaves % 2 = 1 THEN 2 * leaves - 1 ELSE 0)
             + ForestNodes(num_leaves \div 2, 2 * leaves)

InitLedgerLoop ==
    /\ \E latest \in 0 .. (MaxLeaves - 1) :
         /\ ledger_db =
                [CommittedLedger(latest, {}, {}) EXCEPT
                    !.transaction_accumulator = 0 .. (ForestNodes(latest + 1, 1) - 1)]
         /\ ledger_db_version = latest
         /\ current_version = latest
         /\ target_version \in 0 .. latest
    /\ state_merkle_db =
           CommittedTree([v \in 0 .. target_version |-> "snapshot"], {}, None)
    /\ state_merkle_target_version = target_version
    /\ ledger_db_batch_size \in 1 .. 3
    /\ pc = "truncate_ledger_db"
    /\ batches = 0
    /\ runs = 1
    /\ interrupted = FALSE
    /\ started_after = "idle"
    /\ db_at_init = <<ledger_db, state_merkle_db>>
    /\ db_at_start = <<ledger_db, state_merkle_db>>

NextLedgerLoop == TruncateLedgerDb

SpecLedgerLoop == InitLedgerLoop /\ [][NextLedgerLoop]_vars

----------------------------------------------------------------------------
\* The ledger loop alone on a ledger store that breaks one invariant of the
\* data model.

Inconsistencies ==
    {"epoch_above", "stale_index_above", "accumulator_long",
     "accumulator_short", "accumulator_gap"}

\* An epoch boundary or a staleness record one version above the ledger's
\* latest; an accumulator with one position too many, one too few, or
\* without its position 1.
InconsistentLedger(ldb, inconsistency) ==
    LET latest == get_current_version_in_ledger_db(ldb)
        epoch  == Cardinality(ldb.epoch_by_version)
        top    == MaxOf(ldb.transaction_accumulator)
    IN  CASE inconsistency = "epoch_above" ->
                 [ldb EXCEPT !.epoch_by_version = @ \cup {<<latest + 1, epoch>>},
                             !.ledger_info = @ \cup {epoch}]
          [] inconsistency = "stale_index_above" ->
                 [ldb EXCEPT !.stale_state_value_index =
                                 @ \cup {<<latest + 1, latest, StateKey>>},
                             !.state_value = @ \cup {<<StateKey, latest>>}]
          [] inconsistency = "accumulator_long" ->
                 [ldb EXCEPT !.transaction_accumulator = @ \cup {top + 1}]
          [] inconsistency = "accumulator_short" ->
                 [ldb EXCEPT !.transaction_accumulator = @ \ {top}]
          [] inconsistency = "accumulator_gap" ->
                 [ldb EXCEPT !.transaction_accumulator = @ \ {1}]

InitInconsistentLedger ==
    /\ \E latest \in 1 .. MaxVersion :
         /\ \E epoch_endings \in EpochEndingChoices(latest) :
              \E writes \in WriteChoices(latest) :
                \E inconsistency \in Inconsistencies :
                  ledger_db =
                      InconsistentLedger(
                          CommittedLedger(latest, epoch_endings, writes),
                          inconsistency)
         /\ ledger_db_version = latest
         /\ current_version = latest
         /\ target_version \in 0 .. latest
    /\ state_merkle_db =
           CommittedTree([v \in 0 .. target_version |-> "snapshot"], {}, None)
    /\ state_merkle_target_version = target_version
    /\ ledger_db_batch_size \in 1 .. 2
    /\ pc = "truncate_ledger_db"
    /\ batches = 0
    /\ runs = 1
    /\ interrupted = FALSE
    /\ started_after = "idle"
    /\ db_at_init = <<ledger_db, state_merkle_db>>
    /\ db_at_start = <<ledger_db, state_merkle_db>>

NextInconsistentLedger == TruncateLedgerDb

SpecInconsistentLedger ==
    InitInconsistentLedger /\ [][NextInconsistentLedger]_vars

----------------------------------------------------------------------------
\* Vocabulary of the properties

LedgerVersion == get_current_version_in_ledger_db(ledger_db)

TreeVersion == get_current_version_in_state_merkle_db(state_merkle_db)

LedgerAtStart == db_at_start[1]

TreeAtStart == db_at_start[2]

LedgerAtInit == db_at_init[1]

TreeAtInit == db_at_init[2]

\* frozen(n) = 2n - popcount(n), over the naturals
Frozen(n) == 2 * n - count_ones(n)

\* The greatest version <= v at which a root exists, None when there is none.
GreatestRootAtOrBefore(smdb, v) ==
    LET roots == {k[1] : k \in {x \in smdb.jellyfish_merkle_node :
                                   x[2] = EmptyPath /\ x[1] <= v}}
    IN  IF roots = {} THEN None ELSE MaxOf(roots)

\* The greatest epoch boundary <= v, None when there is none.
GreatestEpochBoundaryAtOrBefore(ldb, v) ==
    LET ends == {e[1] : e \in {x \in ldb.epoch_by_version : x[1] <= v}}
    IN  IF ends = {} THEN None ELSE MaxOf(ends)

InRun == pc \in {"truncate_state_merkle_db", "truncate_ledger_db",
                 "catch_up_state_merkle_db"}

----------------------------------------------------------------------------
\* C1: a run that returns Ok leaves both stores reporting target_version as
\* their current version (the catch-up routine meeting its contract).
C1_OkRunLeavesBothStoresAtTarget ==
    pc = "ok" =>
        /\ get_current_version_in_ledger_db(ledger_db) = target_version
        /\ get_current_version_in_state_merkle_db(state_merkle_db) = target_version

\* A run returned Ok after truncating both stores from above the target.
C1_Witness ==
    /\ pc = "ok"
    /\ get_current_version_in_ledger_db(LedgerAtStart) > target_version
    /\ get_current_version_in_state_merkle_db(TreeAtStart) > target_version

\* C2: in the loop of truncate_ledger_db the loop's current_version is the
\* store's current ledger version; after every batch no per-version record
\* (transaction info, transaction, version data, write set), no epoch
\* boundary and no LedgerInfo of a boundary lies above the store's current
\* ledger version; when the loop is left the ledger version is the target.
C2_LedgerTruncatorContract ==
    LET ledger_version == LedgerVersion
    IN
    /\ pc = "truncate_ledger_db" => ledger_version = current_version
    /\ \A v \in ledger_db.transaction \cup ledger_db.version_data
                    \cup ledger_db.write_set \cup ledger_db.transaction_info :
           v <= ledger_version
    /\ \A e \in ledger_db.epoch_by_version : e[1] <= ledger_version
    /\ \A e \in LedgerAtInit.epoch_by_version :
           e[1] > ledger_version => e[2] \notin ledger_db.ledger_info
    /\ pc \in {"catch_up_state_merkle_db", "ok"} =>
           /\ ledger_version = target_version
           /\ ledger_db.transaction = 0 .. target_version
           /\ ledger_db.version_data = 0 .. target_version
           /\ ledger_db.write_set = 0 .. target_version

\* A batch that deleted an epoch boundary has completed and more remain.
C2_Witness ==
    /\ pc = "truncate_ledger_db"
    /\ target_version < current_version
    /\ current_version < ledger_db_version
    /\ \E e \in LedgerAtStart.epoch_by_version : e[1] > current_version

\* C3 (as claimed): once the ledger is truncated to the target no state
\* value written after the target and no StaleStateValueIndex that became
\* stale after the target survives.
C3_StateValueHistoryRewound ==
    pc \in {"catch_up_state_merkle_db", "ok"} =>
        /\ \A sv \in ledger_db.state_value : sv[2] <= target_version
        /\ \A i \in ledger_db.stale_state_value_index : i[1] <= target_version

\* C4 (as claimed): after every iteration of truncate_state_merkle_db every
\* surviving node version and stale_since_version is at most the store's
\* current tree version, and when the loop is left the tree version is the
\* tree target.
C4_TreeTruncatorContract ==
    /\ pc \in {"truncate_state_merkle_db", "truncate_ledger_db"} =>
           /\ \A k \in state_merkle_db.jellyfish_merkle_node : k[1] <= TreeVersion
           /\ \A i \in state_merkle_db.stale_node_index
                          \cup state_merkle_db.stale_node_index_cross_epoch :
                  i[1] <= TreeVersion
    /\ pc = "truncate_ledger_db" => TreeVersion = state_merkle_target_version

\* C5: the accumulator holds exactly the positions below
\* frozen(current ledger version + 1), before and after every ledger batch.
C5_AccumulatorAgreesWithLedger ==
    LedgerVersion # None =>
        ledger_db.transaction_accumulator = 0 .. (Frozen(LedgerVersion + 1) - 1)

\* A ledger batch has shrunk the accumulator and the ledger is not yet at
\* the target.
C5_Witness ==
    /\ pc = "truncate_ledger_db"
    /\ current_version > target_version
    /\ ledger_db.transaction_accumulator # LedgerAtStart.transaction_accumulator
    /\ ledger_db.transaction_accumulator # {}

C7_FatalPreChecksAbortBeforeMutation ==
    (/\ runs >= 1
     /\ \/ LedgerAtStart.transaction_info = {}
        \/ TreeAtStart.jellyfish_merkle_node = {}
        \/ target_version > get_current_version_in_ledger_db(LedgerAtStart)
        \/ find_tree_root_at_or_before(LedgerAtStart, TreeAtStart, target_version)
               = None)
    => /\ pc = "panic_precheck"
       /\ <<ledger_db, state_merkle_db>> = db_at_start

\* A run aborted on non-empty stores with a target within the ledger: no
\* tree root was found.
C7_Witness ==
    /\ pc = "panic_precheck"
    /\ TreeAtStart.jellyfish_merkle_node # {}
    /\ LedgerAtStart.transaction_info # {}
    /\ target_version <= get_current_version_in_ledger_db(LedgerAtStart)

\* The stores an uninterrupted successful run leaves: everything of the
\* ledger above the target is gone (state values through their staleness
\* records); the tree has lost the nodes above the tree target and the
\* staleness records of their versions, and the catch-up adds the snapshot
\* of the target when the tree target is older.
FinalLedger(ldb, target) ==
    [transaction_info        |-> {v \in ldb.transaction_info : v <= target},
     transaction             |-> {v \in ldb.transaction : v <= target},
     version_data            |-> {v \in ldb.version_data : v <= target},
     write_set               |-> {v \in ldb.write_set : v <= target},
     epoch_by_version        |-> {e \in ldb.epoch_by_version : e[1] <= target},
     ledger_info             |->
         ldb.ledger_info \ {e[2] : e \in {x \in ldb.epoch_by_version : x[1] > target}},
     stale_state_value_index |-> {i \in ldb.stale_state_value_index : i[1] <= target},
     state_value             |->
         ldb.state_value \ {<<i[3], i[1]>> :
                               i \in {x \in ldb.stale_state_value_index : x[1] > target}},
     transaction_accumulator |->
         {q \in ldb.transaction_accumulator : q < Frozen(target + 1)}]

FinalTree(ldb, smdb, target) ==
    LET tree_target == find_tree_root_at_or_before(ldb, smdb, target)
        cut == {k[1] : k \in {x \in smdb.jellyfish_merkle_node : x[1] > tree_target}}
    IN  [jellyfish_merkle_node |->
             {k \in smdb.jellyfish_merkle_node : k[1] <= tree_target}
                 \cup (IF tree_target < target THEN {<<target, EmptyPath>>} ELSE {}),
         stale_node_index |-> {i \in smdb.stale_node_index : i[1] \notin cut},
         stale_node_index_cross_epoch |->
             {i \in smdb.stale_node_index_cross_epoch : i[1] \notin cut}]

\* In every state in which the process can be killed or has been killed, a
\* run with the same target passes the entry checks on the stores as they
\* are.
EntryChecksPassWhenKilled ==
    (InRun \/ pc = "killed") =>
        /\ LedgerVersion # None
        /\ TreeVersion # None
        /\ target_version <= LedgerVersion
        /\ LedgerVersion >= TreeVersion
        /\ find_tree_root_at_or_before(ledger_db, state_merkle_db,
                                       target_version) # None

\* C8 (as claimed): whenever the process can be killed or has been killed,
\* a run with the same target passes the entry checks on the stores as they
\* are (target <= ledger version, ledger version >= tree version, a tree
\* root is found); and a run that returns Ok, after any kills, leaves both
\* stores as an uninterrupted run from the original stores leaves them.
C8_ResumedRunSameAsUninterrupted ==
    /\ EntryChecksPassWhenKilled
    /\ pc = "ok" =>
           /\ ledger_db = FinalLedger(LedgerAtInit, target_version)
           /\ state_merkle_db = FinalTree(LedgerAtInit, TreeAtInit, target_version)

\* C8 (amended): the entry checks pass as claimed; a run that returns Ok,
\* after any kills, leaves the ledger as an uninterrupted run from the
\* original stores leaves it and the tree at the target, as an
\* uninterrupted run from the stores it was started on leaves it.  That tree
\* holds every record the uninterrupted run from the original stores
\* leaves, and no other when the closest node at or before the target in
\* the original tree has a root.
C8_ResumableAfterKill ==
    /\ EntryChecksPassWhenKilled
    /\ pc = "ok" =>
           LET uninterrupted == FinalTree(LedgerAtInit, TreeAtInit, target_version)
           IN  /\ ledger_db = FinalLedger(LedgerAtInit, target_version)
               /\ TreeVersion = target_version
               /\ state_merkle_db =
                      FinalTree(LedgerAtStart, TreeAtStart, target_version)
               /\ uninterrupted.jellyfish_merkle_node
                      \subseteq state_merkle_db.jellyfish_merkle_node
               /\ uninterrupted.stale_node_index
                      \subseteq state_merkle_db.stale_node_index
               /\ uninterrupted.stale_node_index_cross_epoch
                      \subseteq state_merkle_db.stale_node_index_cross_epoch
               /\ root_exist_at_version(
                      TreeAtInit,
                      find_closest_node_version_at_or_before(TreeAtInit,
                                                             target_version))
                  => state_merkle_db = uninterrupted

\* A run killed after it had written a batch was started again, wrote the
\* remaining batches and returned Ok.
C8_Witness ==
    /\ pc = "ok"
    /\ interrupted
    /\ started_after = "killed"
    /\ db_at_start # db_at_init
    /\ db_at_start # <<ledger_db, state_merkle_db>>

\* C9: a run started right after a run that returned Ok neither panics nor
\* calls the catch-up, and leaves both stores as it found them.
C9_SecondRunIsNoOp ==
    (runs >= 2 /\ started_after = "ok") =>
        /\ pc \in {"truncate_state_merkle_db", "truncate_ledger_db", "ok", "killed"}
        /\ <<ledger_db, state_merkle_db>> = db_at_start

\* The second of two runs returned Ok; the first had truncated the ledger
\* and caught the tree up.
C9_Witness ==
    /\ runs = 2
    /\ started_after = "ok"
    /\ pc = "ok"
    /\ LedgerAtInit # ledger_db
    /\ <<target_version, EmptyPath>> \notin TreeAtInit.jellyfish_merkle_node

\* C10 (as claimed): with any positive batch size a run whose entry checks
\* pass ends with the same store contents, those of an uninterrupted
\* truncation to the target.
C10_BatchSizeIndependence ==
    (/\ ledger_db_batch_size >= 1
     /\ ~interrupted
     /\ pc \in {"ok", "panic_ledger"})
    => /\ ledger_db = FinalLedger(LedgerAtInit, target_version)
       /\ state_merkle_db = FinalTree(LedgerAtInit, TreeAtInit, target_version)

\* C11 (as claimed): for every batch size the ledger loop does not abort,
\* writes no more batches than there are versions to delete, never passes
\* the target, and has written ceil((current_version - target_version) /
\* batch_size) batches when it reaches the target.
C11_LedgerLoopTerminates ==
    /\ pc # "panic_ledger"
    /\ pc = "truncate_ledger_db" =>
           /\ batches <= ledger_db_version - target_version
           /\ current_version >= target_version
           /\ (current_version = target_version /\ ledger_db_batch_size >= 1) =>
                  batches = (ledger_db_version - target_version
                                 + ledger_db_batch_size - 1)
                            \div ledger_db_batch_size

\* The versions at which the tree holds nodes.
NodeVersions(smdb) == {k[1] : k \in smdb.jellyfish_merkle_node}

\* C12 (as claimed): every iteration of the tree loop lowers the tree
\* version by exactly one, so after k iterations the tree version is k below
\* the one the loop started with.
C12_TreeLoopStepsByOne ==
    pc = "truncate_state_merkle_db" =>
        batches = get_current_version_in_state_merkle_db(TreeAtStart) - TreeVersion

\* C12 (amended): every iteration of the tree loop removes the nodes of
\* exactly one version, the greatest: after k iterations the k greatest node
\* versions the loop started with are gone, the tree version is the
\* greatest one left, at least k below the first and not below the tree
\* target; when it reaches the tree target as many iterations have run as
\* there were node versions above it.
C12_TreeLoopProgress ==
    pc = "truncate_state_merkle_db" =>
        LET first == get_current_version_in_state_merkle_db(TreeAtStart)
            gone  == {v \in NodeVersions(TreeAtStart) : v > TreeVersion}
        IN  /\ NodeVersions(state_merkle_db) = NodeVersions(TreeAtStart) \ gone
            /\ batches = Cardinality(gone)
            /\ batches <= first - TreeVersion
            /\ TreeVersion >= state_merkle_target_version
            /\ TreeVersion = state_merkle_target_version =>
                   batches = Cardinality({v \in NodeVersions(TreeAtStart) :
                                             v > state_merkle_target_version})

\* One iteration has lowered the tree version by more than one and the loop
\* has not reached the tree target.
C12_Witness ==
    /\ pc = "truncate_state_merkle_db"
    /\ batches = 1
    /\ TreeVersion < get_current_version_in_state_merkle_db(TreeAtStart) - 1
    /\ TreeVersion > state_merkle_target_version

\* C13: for every leaf count n up to the one the ledger loop stands at,
\* num_frozen_nodes_in_accumulator(n) is 2n - popcount(n) (1, 3, 4, 7 for
\* n = 1, 2, 3, 4), the number of nodes of the forest of perfect binary
\* subtrees over n leaves, and less than its value at n + 1; so for the batch
\* the loop computes next, frozen(end_version) - frozen(start_version) is
\* not negative when start_version <= end_version.
C13_FrozenNodeArithmetic ==
    pc = "truncate_ledger_db" =>
        /\ \A n \in 0 .. (current_version + 1) :
               /\ num_frozen_nodes_in_accumulator(n) = 2 * n - count_ones(n)
               /\ num_frozen_nodes_in_accumulator(n) = ForestNodes(n, 1)
               /\ num_frozen_nodes_in_accumulator(n)
                      < num_frozen_nodes_in_accumulator(n + 1)
               /\ n \in 1 .. 4 =>
                      num_frozen_nodes_in_accumulator(n) = <<1, 3, 4, 7>>[n]
        /\ LET start_version ==
                   start_version_of_batch(current_version, ledger_db_batch_size,
                                          target_version)
               end_version == current_version + 1
           IN  start_version <= end_version =>
                   num_frozen_nodes_in_accumulator(end_version)
                       - num_frozen_nodes_in_accumulator(start_version) >= 0

\* The ledger loop has written a batch that took more than two nodes from
\* an accumulator of more than four leaves, and goes on.
C13_Witness ==
    /\ pc = "truncate_ledger_db"
    /\ batches >= 1
    /\ current_version > target_version
    /\ ledger_db_version + 1 > 4
    /\ Cardinality(LedgerAtStart.transaction_accumulator)
           - Cardinality(ledger_db.transaction_accumulator) > 2

\* C14 (as claimed): in every iteration of the ledger loop, with end_version
\* = current_version + 1, current_version - batch_size does not underflow
\* and start_version is max(end_version - batch_size, target_version + 1)
\* over the integers, so target_version < start_version <= end_version; the
\* store's ledger version is current_version, so the batch starts where the
\* one before it ended.
C14_BatchBoundsWithoutWrap ==
    (pc = "truncate_ledger_db" /\ current_version > target_version) =>
        LET end_version == current_version + 1
            start_version ==
                start_version_of_batch(current_version, ledger_db_batch_size,
                                       target_version)
        IN  /\ ~start_version_overflows(current_version, ledger_db_batch_size)
            /\ start_version = Max(end_version - ledger_db_batch_size,
                                   target_version + 1)
            /\ target_version < start_version
            /\ start_version <= end_version
            /\ LedgerVersion = current_version

\* C15: a step that writes to the ledger store is taken in the ledger loop
\* with the tree at the tree target; the catch-up is entered only from the
\* ledger loop, with the ledger at the target and the tree target below it;
\* the run returns Ok from the ledger loop only when the tree target is the
\* target, and otherwise only from the catch-up; only the catch-up, entered
\* that way, writes to the tree after the tree loop.
C15_OrchestrationOrder ==
    [][/\ ledger_db' # ledger_db =>
              /\ pc = "truncate_ledger_db"
              /\ TreeVersion = state_merkle_target_version
       /\ (pc' = "catch_up_state_merkle_db" /\ pc # "catch_up_state_merkle_db") =>
              /\ pc = "truncate_ledger_db"
              /\ LedgerVersion = target_version
              /\ state_merkle_target_version < target_version
       /\ (pc' = "ok" /\ pc # "ok") =>
              \/ /\ pc = "truncate_ledger_db"
                 /\ LedgerVersion = target_version
                 /\ state_merkle_target_version = target_version
              \/ pc = "catch_up_state_merkle_db"
       /\ state_merkle_db' # state_merkle_db =>
              pc \in {"truncate_state_merkle_db", "catch_up_state_merkle_db"}
      ]_vars

\* The catch-up is about to be called in a run that has truncated the tree
\* and then the ledger.
C15_Witness ==
    /\ pc = "catch_up_state_merkle_db"
    /\ TreeAtStart # state_merkle_db
    /\ LedgerAtStart # ledger_db

\* C16: when the batch the ledger loop builds meets an epoch boundary or a
\* StaleStateValueIndex at or above end_version, an accumulator whose
\* highest position is not frozen(end_version) - 1, or a number of
\* accumulator nodes to delete other than frozen(end_version) -
\* frozen(start_version), the run aborts; and a run that aborts in the
\* ledger loop leaves the ledger store as the last completed batch left it.
C16_AbortAppliesNothing ==
    [][pc = "truncate_ledger_db" =>
         LET start_version ==
                 start_version_of_batch(current_version, ledger_db_batch_size,
                                        target_version)
             end_version == current_version + 1
             highest == IF ledger_db.transaction_accumulator = {} THEN None
                        ELSE MaxOf(ledger_db.transaction_accumulator)
             violation ==
                 \/ \E e \in ledger_db.epoch_by_version : e[1] >= end_version
                 \/ \E i \in ledger_db.stale_state_value_index : i[1] >= end_version
                 \/ highest + 1 # Frozen(end_version)
                 \/ Cardinality({q \in ledger_db.transaction_accumulator :
                                    q >= Frozen(start_version)})
                        # Frozen(end_version) - Frozen(start_version)
         IN  /\ (current_version > target_version /\ violation
                   /\ start_version <= end_version) =>
                    pc' = "panic_ledger"
             /\ pc' = "panic_ledger" => ledger_db' = ledger_db
      ]_vars

\* The ledger loop has aborted after it had completed a batch, and not on
\* an underflow: the accumulator lacks a position.
C16_Witness ==
    /\ pc = "panic_ledger"
    /\ ledger_db # LedgerAtStart
    /\ ledger_db_batch_size <= get_current_version_in_ledger_db(ledger_db)
    /\ 1 \notin ledger_db.transaction_accumulator

\* C17: on the stores of every state in which a run can be started (the
\* initial ones, and those a run has left by returning or being killed), a
\* version find_tree_root_at_or_before(v) returns is at most v and a root
\* exists at exactly that version; in the tree loop the store has a current
\* version, it is not below the loop's target, and that target is at most
\* target_version and the version of a root.
C17_TreeTargetSound ==
    /\ ~InRun =>
           \A v \in 0 .. (MaxVersion + 1) :
               LET r == find_tree_root_at_or_before(ledger_db, state_merkle_db, v)
               IN  r # None =>
                       /\ r <= v
                       /\ <<r, EmptyPath>> \in state_merkle_db.jellyfish_merkle_node
    /\ pc = "truncate_state_merkle_db" =>
           /\ TreeVersion # None
           /\ TreeVersion >= state_merkle_target_version
           /\ state_merkle_target_version <= target_version
           /\ <<state_merkle_target_version, EmptyPath>>
                  \in state_merkle_db.jellyfish_merkle_node

\* The tree loop has written a batch in a run whose tree target came from
\* the epoch-boundary fallback.
C17_Witness ==
    /\ pc = "truncate_state_merkle_db"
    /\ batches >= 1
    /\ state_merkle_target_version
           < find_closest_node_version_at_or_before(TreeAtStart, target_version)

\* C18: in every state of a run that passed its entry checks, every record
\* the stores held when the run began is still there if it is a per-version
\* ledger record, an epoch boundary or the LedgerInfo of a boundary at or
\* below target_version, an accumulator node below frozen(target_version +
\* 1), or a tree node or staleness record at or below the run's tree
\* target; and a step of the tree loop leaves the ledger store unchanged, a
\* step of the ledger loop the tree store.
C18_FrameOfTruncation ==
    /\ [](  (runs >= 1 /\ pc # "panic_precheck") =>
            LET tree_target ==
                    find_tree_root_at_or_before(LedgerAtStart, TreeAtStart,
                                                target_version)
                kept(table) == {v \in table : v <= target_version}
            IN  /\ kept(LedgerAtStart.transaction_info) \subseteq ledger_db.transaction_info
                /\ kept(LedgerAtStart.transaction) \subseteq ledger_db.transaction
                /\ kept(LedgerAtStart.version_data) \subseteq ledger_db.version_data
                /\ kept(LedgerAtStart.write_set) \subseteq ledger_db.write_set
                /\ \A e \in LedgerAtStart.epoch_by_version :
                       e[1] <= target_version =>
                           /\ e \in ledger_db.epoch_by_version
                           /\ e[2] \in ledger_db.ledger_info
                /\ \A q \in LedgerAtStart.transaction_accumulator :
                       q < Frozen(target_version + 1) =>
                           q \in ledger_db.transaction_accumulator
                /\ \A k \in TreeAtStart.jellyfish_merkle_node :
                       k[1] <= tree_target =>
                           k \in state_merkle_db.jellyfish_merkle_node
                /\ \A i \in TreeAtStart.stale_node_index :
                       i[1] <= tree_target => i \in state_merkle_db.stale_node_index
                /\ \A i \in TreeAtStart.stale_node_index_cross_epoch :
                       i[1] <= tree_target =>
                           i \in state_merkle_db.stale_node_index_cross_epoch)
    /\ [][/\ pc = "truncate_state_merkle_db" => ledger_db' = ledger_db
          /\ pc = "truncate_ledger_db" => state_merkle_db' = state_merkle_db
         ]_vars

\* The ledger loop has written a batch after the tree loop had written one,
\* with an epoch boundary at or below the target.
C18_Witness ==
    /\ pc = "truncate_ledger_db"
    /\ batches >= 1
    /\ state_merkle_db # TreeAtStart
    /\ \E e \in ledger_db.epoch_by_version : e[1] <= target_version

\* C19 (as claimed): with a batch size of at least one, no assertion of the
\* batch the tree loop or the ledger loop builds next fails, the stores the
\* run started on satisfying the invariants of the data model.
C19_NoSpuriousConsistencyFailure ==
    ledger_db_batch_size >= 1 =>
        /\ (/\ pc = "truncate_state_merkle_db"
            /\ TreeVersion > state_merkle_target_version) =>
               ~truncate_state_merkle_db_iteration_panics(state_merkle_db,
                                                          TreeVersion)
        /\ (pc = "truncate_ledger_db" /\ current_version > target_version) =>
               ~truncate_ledger_db_single_batch_panics(
                    ledger_db,
                    start_version_of_batch(current_version, ledger_db_batch_size,
                                           target_version),
                    wrapping_add(current_version, 1),
                    FALSE)

\* C20 (as claimed): for every version v,
\* find_closest_node_version_at_or_before(v) is the greatest version <= v
\* at which the tree holds a node of any path, and with v = u64::MAX the
\* version of the greatest node key.
C20_ClosestNodeVersionAnyPath ==
    /\ \A v \in 0 .. (MaxVersion + 1) :
           LET at_or_before == {u \in NodeVersions(state_merkle_db) : u <= v}
           IN  find_closest_node_version_at_or_before(state_merkle_db, v)
                   = IF at_or_before = {} THEN None ELSE MaxOf(at_or_before)
    /\ find_closest_node_version_at_or_before(state_merkle_db, U64Max)
           = IF NodeVersions(state_merkle_db) = {} THEN None
             ELSE MaxOf(NodeVersions(state_merkle_db))

=============================================================================
